---------------------------- MODULE Spec2Model ----------------------------
(***************************************************************************)
(* Model of the hvac_ir_climate integration:                               *)
(*   utils/ir_sender.py  WaveGenerator, NEC, IrSender                      *)
(*   utils/mitsubishi.py Mitsubishi (frame builder and facade)             *)
(*   climate.py          HvacIrClimate (entity, lock, requests)            *)
(*   controller.py       ESPHomeController.send                            *)
(***************************************************************************)
EXTENDS Integers, Sequences, FiniteSets, TLC

VARIABLES
    pc,         \* position of the caller of the encoder: "idle" | "returned"
    profile,    \* NEC timing profile of the IrSender instance
    raw_codes,  \* IrSender.protocol.wave_generator.raw_codes
    call,       \* arguments of the call that last ran
    ret,        \* value returned by the call that last ran
    code,       \* send_data: the bit string handed to send_code
    visits,     \* send_data: the (idx, mask) pairs in the order the loop visited them
    data,       \* __send_command: the 18-byte frame
    entity,     \* HvacIrClimate: the fields the requests read and write
    lock,       \* HvacIrClimate._temp_lock
    tasks,      \* the requests being served: position and command of each
    transmitted,\* the commands handed to ESPHomeController.send, in order
    history     \* the calls one caller made on the facade, with what each returned

vars == <<pc, profile, raw_codes, call, ret, code, visits, data,
          entity, lock, tasks, transmitted, history>>

encoder == <<pc, profile, raw_codes, call, ret, code, visits, data, history>>

climate == <<entity, lock, tasks, transmitted>>

-----------------------------------------------------------------------------
(* Bounds of the model *)

MaxCodeLen == 2     \* longest symbol string handed to send_code
MaxDataLen == 2     \* longest byte array handed to send_data
MaxNb == 2          \* largest repetition count
MaxRawLen == 4      \* a sender is called again only while raw_codes is this short
TempMargin == 9     \* temperatures are drawn this far below MinTemp and above MaxTemp
MaxTasks == 3       \* requests served by one entity in one run
MaxHistory == 3     \* calls one caller makes on the facade in one run

-----------------------------------------------------------------------------
(* Bit arithmetic on non-negative integers *)

RECURSIVE BitAnd(_, _)
BitAnd(a, b) ==
    IF a = 0 \/ b = 0 THEN 0
    ELSE (IF a % 2 = 1 /\ b % 2 = 1 THEN 1 ELSE 0) + 2 * BitAnd(a \div 2, b \div 2)

RECURSIVE BitOr(_, _)
BitOr(a, b) ==
    IF a = 0 THEN b
    ELSE IF b = 0 THEN a
    ELSE (IF a % 2 = 1 \/ b % 2 = 1 THEN 1 ELSE 0) + 2 * BitOr(a \div 2, b \div 2)

-----------------------------------------------------------------------------
(* ir_sender.py: WaveGenerator *)

WaveGenerator_zero(raw, duration) == Append(raw, 0 - duration)

WaveGenerator_one(raw, duration) == Append(raw, duration)

(* ir_sender.py: NEC *)

NECDefaults ==
    [lp |-> 9000, lg |-> 4500, op |-> 562, og |-> 1686,
     zp |-> 562, zg |-> 562, tp |-> 562, tg |-> 0]

\* the AGC burst with its two phases in the wrong order
send_agc_swapped(p, raw) ==
    WaveGenerator_one(WaveGenerator_zero(raw, p.lg), p.lp)

send_agc(p, raw) ==
    WaveGenerator_zero(WaveGenerator_one(raw, p.lp), p.lg)

send_trailing_pulse(p, raw) ==
    LET r1 == WaveGenerator_one(raw, p.tp)
    IN  IF p.tg > 0 THEN WaveGenerator_zero(r1, p.tg) ELSE r1

NEC_zero(p, raw) ==
    WaveGenerator_zero(WaveGenerator_one(raw, p.zp), p.zg)

NEC_one(p, raw) ==
    WaveGenerator_zero(WaveGenerator_one(raw, p.op), p.og)

\* a symbol handled as if every symbol other than "0" were a "1"
symbol_lenient(p, raw, i) ==
    IF i = "0" THEN [rc |-> 0, raw |-> NEC_zero(p, raw)]
    ELSE [rc |-> 0, raw |-> NEC_one(p, raw)]

\* one iteration of the loop of process_code: rc = 1 is the early "return 1"
symbol(p, raw, i) ==
    IF i = "0" THEN [rc |-> 0, raw |-> NEC_zero(p, raw)]
    ELSE IF i = "1" THEN [rc |-> 0, raw |-> NEC_one(p, raw)]
    ELSE [rc |-> 1, raw |-> raw]

\* the for loop of process_code over ircode[lo..hi]: the symbols are handled in
\* order, the first half of the range before the second, and the loop ends at
\* the first symbol that returns 1
RECURSIVE symbols(_, _, _, _, _)
symbols(p, raw, ircode, lo, hi) ==
    IF lo > hi THEN [rc |-> 0, raw |-> raw]
    ELSE IF lo = hi THEN symbol(p, raw, ircode[lo])
    ELSE LET mid == (lo + hi) \div 2
             s == symbols(p, raw, ircode, lo, mid)
         IN  IF s.rc # 0 THEN s ELSE symbols(p, s.raw, ircode, mid + 1, hi)

\* the leading burst emitted by the first repetition only
leading_once(p, raw) ==
    IF raw = <<>> /\ (p.lp > 0 \/ p.lg > 0) THEN send_agc(p, raw) ELSE raw

\* the head of process_code: the AGC burst, when configured
leading(p, raw) ==
    IF p.lp > 0 \/ p.lg > 0 THEN send_agc(p, raw) ELSE raw

\* the tail of process_code: the trailing pulse, when configured
trailing(p, raw) ==
    IF p.tp > 0 THEN send_trailing_pulse(p, raw) ELSE raw

process_code(p, raw, ircode) ==
    LET s == symbols(p, leading(p, raw), ircode, 1, Len(ircode))
    IN  IF s.rc # 0 THEN s ELSE [rc |-> 0, raw |-> trailing(p, s.raw)]

(* ir_sender.py: IrSender *)

\* what a Python call returns: the int 1, or the list raw_codes
RetInt(n) == [kind |-> "int", int |-> n, list |-> <<>>]
RetList(l) == [kind |-> "list", int |-> 0, list |-> l]

RECURSIVE repetitions(_, _, _, _, _)
repetitions(p, raw, ircode, k, nb) ==
    IF k >= nb THEN [ret |-> RetList(raw), raw |-> raw]
    ELSE LET r == process_code(p, raw, ircode)
         IN  IF r.rc # 0 THEN [ret |-> RetInt(1), raw |-> r.raw]
             ELSE repetitions(p, r.raw, ircode, k + 1, nb)

send_code(p, raw, ircode, nb) == repetitions(p, raw, ircode, 0, nb)

\* the bit of the byte under the mask, as the symbol send_data writes
bit(byte, mask) == IF BitAnd(byte, mask) # 0 THEN "1" ELSE "0"

\* every symbol appended, whatever must_invert says
accumulate_append(c, b, must_invert) == c \o <<b>>

\* the statement that adds one symbol to code
accumulate(c, b, must_invert) ==
    IF must_invert THEN c \o <<b>> ELSE <<b>> \o c

first_mask == 1

\* the mask shifted by two places
next_mask_skip(mask) == mask * 4

next_mask(mask) == mask * 2

\* the while loop of send_data over one byte
RECURSIVE mask_loop(_, _, _, _, _, _)
mask_loop(acc, d, idx, mask, max_mask, must_invert) ==
    IF max_mask > mask /\ mask > 0
    THEN mask_loop([code |-> accumulate(acc.code, bit(d[idx + 1], mask), must_invert),
                    visits |-> Append(acc.visits, <<idx, mask>>)],
                   d, idx, next_mask(mask), max_mask, must_invert)
    ELSE acc

byte_index(i, n, must_invert) == IF must_invert THEN i ELSE n - i - 1

\* the for loop of send_data over the bytes, for i in lo..hi: the bytes are
\* handled in order, the first half of the range before the second (every
\* visit adds one symbol to code, so the first half always hands over)
RECURSIVE byte_loop(_, _, _, _, _, _)
byte_loop(acc, d, lo, hi, max_mask, must_invert) ==
    IF lo > hi THEN acc
    ELSE IF lo = hi
    THEN mask_loop(acc, d, byte_index(lo, Len(d), must_invert),
                   first_mask, max_mask, must_invert)
    ELSE LET mid == (lo + hi) \div 2
             a == byte_loop(acc, d, lo, mid, max_mask, must_invert)
         IN  IF Len(a.code) = Len(a.visits)
             THEN byte_loop(a, d, mid + 1, hi, max_mask, must_invert)
             ELSE a

send_data(p, raw, d, max_mask, must_invert, nb) ==
    LET acc == byte_loop([code |-> <<>>, visits |-> <<>>], d, 0, Len(d) - 1,
                           max_mask, must_invert)
        r == send_code(p, raw, acc.code, nb)
    IN  [ret |-> r.ret, raw |-> r.raw, code |-> acc.code, visits |-> acc.visits]

-----------------------------------------------------------------------------
(* mitsubishi.py: the code tables *)

PowerMode == [PowerOff |-> 0, PowerOn |-> 32]

ClimateMode == [Hot |-> 8, Cold |-> 24, Dry |-> 16, Auto |-> 32]

\* the private second table: __Hot2, __Cold2, __Dry2, __Auto2
ClimateMode2 == [Hot2 |-> 0, Cold2 |-> 6, Dry2 |-> 2, Auto2 |-> 0]

\* no branch for any other value: the source returns None there, and the
\* "|" of __send_command then raises
climate2(climate_mode) ==
    CASE climate_mode = ClimateMode.Hot -> ClimateMode2.Hot2
      [] climate_mode = ClimateMode.Cold -> ClimateMode2.Cold2
      [] climate_mode = ClimateMode.Dry -> ClimateMode2.Dry2
      [] climate_mode = ClimateMode.Auto -> ClimateMode2.Auto2

ISeeMode == [ISeeOff |-> 0, ISeeOn |-> 64]

PowerfulMode == [PowerfulOff |-> 0, PowerfulOn |-> 8]

VanneHorizontalMode ==
    [NotSet |-> 0, Left |-> 16, MiddleLeft |-> 32, Middle |-> 48,
     MiddleRight |-> 64, Right |-> 80, Swing |-> 192]

FanMode == [Speed1 |-> 1, Speed2 |-> 2, Speed3 |-> 3, Speed4 |-> 4, Auto |-> 128]

VanneVerticalMode ==
    [Auto |-> 64, Top |-> 72, MiddleTop |-> 80, Middle |-> 88,
     MiddleBottom |-> 96, Bottom |-> 104, Swing |-> 120]

TimeControlMode ==
    [NoTimeControl |-> 0, ControlStart |-> 5, ControlEnd |-> 3, ControlBoth |-> 7]

AreaMode == [NotSet |-> 0, Left |-> 64, Right |-> 192, Full |-> 128]

Delay ==
    [HdrMark |-> 3400, HdrSpace |-> 1750, BitMark |-> 450, OneSpace |-> 1300,
     ZeroSpace |-> 420, RptMark |-> 440, RptSpace |-> 17100]

\* the offsets of the fields in the frame, counted from 0 as in the source
Index ==
    [Header0 |-> 0, Header1 |-> 1, Header2 |-> 2, Header3 |-> 3, Header4 |-> 4,
     Power |-> 5, ClimateAndISee |-> 6, Temperature |-> 7,
     ClimateAndHorizontalVanne |-> 8, FanAndVerticalVanne |-> 9, Clock |-> 10,
     EndTime |-> 11, StartTime |-> 12, TimeControlAndArea |-> 13, Unused14 |-> 14,
     PowerfulMode |-> 15, Unused16 |-> 16, CRC |-> 17]

Constants ==
    [Frequency |-> 38000, MinTemp |-> 16, MaxTemp |-> 31, MaxMask |-> 255,
     NbBytes |-> 18, NbPackets |-> 2]

\* the values of a record, as a set
Codes(r) == {r[f] : f \in DOMAIN r}

(* mitsubishi.py: Mitsubishi *)

\* the protocol_config __send_command hands to IrSender
MitsubishiProfile ==
    [lp |-> Delay.HdrMark, lg |-> Delay.HdrSpace, op |-> Delay.BitMark,
     og |-> Delay.OneSpace, zp |-> Delay.BitMark, zg |-> Delay.ZeroSpace,
     tp |-> Delay.RptMark, tg |-> Delay.RptSpace]

\* the valid frame __send_command starts from
Template == <<35, 203, 38, 1, 0, 32, 8, 6, 48, 69, 103, 0, 0, 0, 16, 0, 0, 31>>

\* Python's None for start_time and end_time, and a datetime's hour and minute
None == [set |-> FALSE, hour |-> 0, minute |-> 0]
Time(h, m) == [set |-> TRUE, hour |-> h, minute |-> m]

Max(a, b) == IF a >= b THEN a ELSE b
Min(a, b) == IF a <= b THEN a ELSE b

\* the temperature taken as it comes
temperature_unclamped(temperature) == temperature - 16

temperature_byte(temperature) ==
    Max(Constants.MinTemp, Min(Constants.MaxTemp, temperature)) - 16

time_byte(t) == (t.hour * 6) + (t.minute \div 10)

time_control(start_time, end_time) ==
    IF end_time.set /\ start_time.set THEN TimeControlMode.ControlBoth
    ELSE IF end_time.set THEN TimeControlMode.ControlEnd
    ELSE IF start_time.set THEN TimeControlMode.ControlStart
    ELSE TimeControlMode.NoTimeControl

RECURSIVE Sum(_)
Sum(s) == IF s = <<>> THEN 0 ELSE Head(s) + Sum(Tail(s))

\* the sum of the bytes before the last, not reduced
CRC_unreduced(d) == Sum(SubSeq(d, 1, Len(d) - 1))

\* sum(data[:-1]) % (Constants.MaxMask + 1)
CRC(d) == Sum(SubSeq(d, 1, Len(d) - 1)) % (Constants.MaxMask + 1)

\* the assignments of __send_command to data, in the order of the source
frame(a, power_mode, now) ==
    LET d1 == [Template EXCEPT
                  ![Index.Power + 1] = power_mode,
                  ![Index.ClimateAndISee + 1] = BitOr(a.climate_mode, a.isee_mode),
                  ![Index.Temperature + 1] = temperature_byte(a.temperature),
                  ![Index.ClimateAndHorizontalVanne + 1] =
                      BitOr(climate2(a.climate_mode), a.vanne_horizontal_mode),
                  ![Index.FanAndVerticalVanne + 1] =
                      BitOr(a.fan_mode, a.vanne_vertical_mode),
                  ![Index.Clock + 1] = time_byte(now),
                  ![Index.EndTime + 1] =
                      IF ~a.end_time.set THEN 0 ELSE time_byte(a.end_time),
                  ![Index.StartTime + 1] =
                      IF ~a.start_time.set THEN 0 ELSE time_byte(a.start_time),
                  ![Index.TimeControlAndArea + 1] =
                      BitOr(time_control(a.start_time, a.end_time), a.area_mode),
                  ![Index.PowerfulMode + 1] = a.powerful]
    IN  [d1 EXCEPT ![Index.CRC + 1] = CRC(d1)]

\* __send_command over one IrSender kept from call to call instead of a new one
private_send_command_shared(d) ==
    LET r == send_data(MitsubishiProfile, raw_codes, d, Constants.MaxMask, TRUE,
                       Constants.NbPackets)
    IN  [ret |-> r.ret, raw |-> r.raw, code |-> r.code, visits |-> r.visits,
         data |-> d]

\* __send_command from "sender = ..." to "return sender.send_data(...)": a new
\* IrSender, the frame d written to data, and send_data over it
private_send_command(d) ==
    LET r == send_data(MitsubishiProfile, <<>>, d, Constants.MaxMask, TRUE,
                       Constants.NbPackets)
    IN  [ret |-> r.ret, raw |-> r.raw, code |-> r.code, visits |-> r.visits,
         data |-> d]

\* the default values of the parameters of send_command
Defaults ==
    [climate_mode |-> ClimateMode.Auto, temperature |-> 21,
     fan_mode |-> FanMode.Auto, vanne_vertical_mode |-> VanneVerticalMode.Auto,
     vanne_horizontal_mode |-> VanneHorizontalMode.NotSet,
     isee_mode |-> ISeeMode.ISeeOff, area_mode |-> AreaMode.NotSet,
     start_time |-> None, end_time |-> None,
     powerful |-> PowerfulMode.PowerfulOff]

\* the settings power_off passes to __send_command
PowerOffSettings ==
    [climate_mode |-> ClimateMode.Auto, temperature |-> 21,
     fan_mode |-> FanMode.Auto, vanne_vertical_mode |-> VanneVerticalMode.Auto,
     vanne_horizontal_mode |-> VanneHorizontalMode.Swing,
     isee_mode |-> ISeeMode.ISeeOff, area_mode |-> AreaMode.NotSet,
     start_time |-> None, end_time |-> None,
     powerful |-> PowerfulMode.PowerfulOff]

\* power_off passing the power byte of an On frame
power_off_data_on(now) == frame(PowerOffSettings, PowerMode.PowerOn, now)

\* the frame power_off has __send_command build
power_off_data(now) == frame(PowerOffSettings, PowerMode.PowerOff, now)

\* the frame send_command has __send_command build
send_command_data(a, now) == frame(a, PowerMode.PowerOn, now)

power_off(now) == private_send_command(power_off_data(now))

send_command(a, now) == private_send_command(send_command_data(a, now))

-----------------------------------------------------------------------------
(* The inputs the model draws *)

Symbols == {"0", "1", "x"}

SeqsUpTo(S, n) == UNION {[1..k -> S] : k \in 0..n}

\* timing profiles: every on/off combination of the bursts around the NEC
\* defaults, with the trailing gap of the Mitsubishi profile
Profiles ==
    {[NECDefaults EXCEPT !.lp = a, !.lg = b, !.tp = c, !.tg = d] :
        a \in {0, 9000}, b \in {0, 4500}, c \in {0, 562}, d \in {0, 17100}}
    \cup {MitsubishiProfile}

ByteSamples == {15, 176, 255}

MaskSamples == {1, 15, 128, 255}

Temps == (Constants.MinTemp - TempMargin)..(Constants.MaxTemp + TempMargin)

AllTimes == {Time(h, m) : h \in 0..23, m \in 0..59}

TimeSamples == {None, Time(0, 9), Time(23, 59)}

NowSamples == {Time(13, 37)}

\* send_command as climate.py calls it: four keyword arguments
ArgsClimate ==
    {[Defaults EXCEPT !.climate_mode = m, !.temperature = t, !.fan_mode = f,
                      !.vanne_vertical_mode = v] :
        m \in Codes(ClimateMode), t \in Temps, f \in Codes(FanMode),
        v \in Codes(VanneVerticalMode)}

\* send_command with the other six keyword arguments
ArgsOther ==
    {[Defaults EXCEPT !.vanne_horizontal_mode = h, !.isee_mode = i,
                      !.area_mode = r, !.powerful = w, !.start_time = st,
                      !.end_time = et] :
        h \in Codes(VanneHorizontalMode), i \in Codes(ISeeMode),
        r \in Codes(AreaMode), w \in Codes(PowerfulMode),
        st \in TimeSamples, et \in TimeSamples}

\* the (settings, wall-clock time) pairs send_command is called with
CallForms ==
    ((ArgsClimate \cup ArgsOther) \X NowSamples) \cup ({Defaults} \X AllTimes)

NoCall ==
    [op |-> "none", ircode |-> <<>>, data |-> <<>>, max_mask |-> 0,
     must_invert |-> FALSE, nb |-> 0, pre |-> <<>>, args |-> Defaults,
     now |-> Time(0, 0)]

NoRet == [kind |-> "none", int |-> 0, list |-> <<>>]

\* the entity takes no part in the runs of the encoder alone
ClimateUnused ==
    /\ entity = <<>>
    /\ lock = <<>>
    /\ tasks = <<>>
    /\ transmitted = <<>>

-----------------------------------------------------------------------------
(* One IrSender instance and its caller *)

InitSender ==
    /\ pc = "idle"
    /\ profile \in Profiles
    /\ raw_codes = <<>>
    /\ call = NoCall
    /\ ret = NoRet
    /\ code = <<>>
    /\ visits = <<>>
    /\ data = <<>>
    /\ history = <<>>
    /\ ClimateUnused

\* IrSender.__init__: a new NEC with a new, empty WaveGenerator
Construct ==
    /\ pc = "idle"
    /\ \E p \in Profiles : profile' = p
    /\ raw_codes' = <<>>
    /\ UNCHANGED <<pc, call, ret, code, visits, data, climate, history>>

SendCode ==
    /\ pc = "idle"
    /\ Len(raw_codes) <= MaxRawLen
    /\ \E ircode \in SeqsUpTo(Symbols, MaxCodeLen), nb \in 0..MaxNb :
          \E r \in {send_code(profile, raw_codes, ircode, nb)} :
              /\ call' = [NoCall EXCEPT !.op = "send_code", !.ircode = ircode,
                                        !.nb = nb, !.pre = raw_codes]
              /\ ret' = r.ret
              /\ raw_codes' = r.raw
    /\ pc' = "returned"
    /\ UNCHANGED <<profile, code, visits, data, climate, history>>

SendData ==
    /\ pc = "idle"
    /\ Len(raw_codes) <= MaxRawLen
    /\ \E d \in SeqsUpTo(ByteSamples, MaxDataLen), max_mask \in MaskSamples,
          must_invert \in BOOLEAN, nb \in 0..MaxNb :
          \E r \in {send_data(profile, raw_codes, d, max_mask, must_invert, nb)} :
              /\ call' = [NoCall EXCEPT !.op = "send_data", !.data = d,
                                        !.max_mask = max_mask,
                                        !.must_invert = must_invert,
                                        !.nb = nb, !.pre = raw_codes]
              /\ ret' = r.ret
              /\ raw_codes' = r.raw
              /\ code' = r.code
              /\ visits' = r.visits
    /\ pc' = "returned"
    /\ UNCHANGED <<profile, data, climate, history>>

\* the caller drops the returned value; the sender keeps its raw_codes
Return ==
    /\ pc = "returned"
    /\ pc' = "idle"
    /\ call' = NoCall
    /\ ret' = NoRet
    /\ code' = <<>>
    /\ visits' = <<>>
    /\ UNCHANGED <<profile, raw_codes, data, climate, history>>

NextSender == Construct \/ SendCode \/ SendData \/ Return

SpecSender == InitSender /\ [][NextSender]_vars

-----------------------------------------------------------------------------
(* The Mitsubishi facade and its caller *)

InitFacade ==
    /\ pc = "idle"
    /\ profile = MitsubishiProfile
    /\ raw_codes = <<>>
    /\ call = NoCall
    /\ ret = NoRet
    /\ code = <<>>
    /\ visits = <<>>
    /\ data = <<>>
    /\ history = <<>>
    /\ ClimateUnused

\* Mitsubishi.power_off at the wall-clock time now
PowerOff ==
    /\ pc = "idle"
    /\ \E now \in AllTimes :
          \E r \in {power_off(now)} :
              /\ call' = [NoCall EXCEPT !.op = "power_off", !.now = now]
              /\ ret' = r.ret
              /\ raw_codes' = r.raw
              /\ code' = r.code
              /\ visits' = r.visits
              /\ data' = r.data
    /\ pc' = "returned"
    /\ UNCHANGED <<profile, climate, history>>

\* Mitsubishi.send_command at the wall-clock time now
SendCommand ==
    /\ pc = "idle"
    /\ \E f \in CallForms :
          \E r \in {send_command(f[1], f[2])} :
              /\ call' = [NoCall EXCEPT !.op = "send_command", !.args = f[1],
                                        !.now = f[2]]
              /\ ret' = r.ret
              /\ raw_codes' = r.raw
              /\ code' = r.code
              /\ visits' = r.visits
              /\ data' = r.data
    /\ pc' = "returned"
    /\ UNCHANGED <<profile, climate, history>>

\* the caller drops the returned value; the IrSender of the call is gone
ReturnFacade ==
    /\ pc = "returned"
    /\ pc' = "idle"
    /\ call' = NoCall
    /\ ret' = NoRet
    /\ raw_codes' = <<>>
    /\ code' = <<>>
    /\ visits' = <<>>
    /\ data' = <<>>
    /\ UNCHANGED <<profile, climate, history>>

NextFacade == PowerOff \/ SendCommand \/ ReturnFacade

SpecFacade == InitFacade /\ [][NextFacade]_vars

-----------------------------------------------------------------------------
(* One caller making several calls on the facade, one after the other *)

\* the settings and wall-clock times the caller draws its calls from
CallerArgs ==
    {Defaults,
     [Defaults EXCEPT !.climate_mode = ClimateMode.Cold, !.temperature = 24,
                      !.fan_mode = FanMode.Speed2]}

CallerTimes == {Time(0, 9), Time(13, 37)}

InitCaller == InitFacade

\* what a call leaves behind: the entry in the caller's history, and raw_codes,
\* the list of the IrSender the call constructed
Called(op, a, now, r) ==
    /\ call' = [NoCall EXCEPT !.op = op, !.args = a, !.now = now]
    /\ ret' = r.ret
    /\ raw_codes' = r.raw
    /\ code' = r.code
    /\ visits' = r.visits
    /\ data' = r.data
    /\ history' = Append(history, [op |-> op, args |-> a, now |-> now, ret |-> r.ret])
    /\ pc' = "returned"
    /\ UNCHANGED <<profile, climate>>

\* Mitsubishi.power_off, called after the calls in history
CallPowerOff ==
    /\ Len(history) < MaxHistory
    /\ \E now \in CallerTimes :
          \E r \in {power_off(now)} : Called("power_off", PowerOffSettings, now, r)

\* Mitsubishi.send_command, called after the calls in history
CallSendCommand ==
    /\ Len(history) < MaxHistory
    /\ \E a \in CallerArgs, now \in CallerTimes :
          \E r \in {send_command(a, now)} : Called("send_command", a, now, r)

NextCaller == CallPowerOff \/ CallSendCommand

SpecCaller == InitCaller /\ [][NextCaller]_vars

-----------------------------------------------------------------------------
(* climate.py: HvacIrClimate *)

HVAC_MODE_OFF == "off"
HVAC_MODE_HEAT == "heat"
HVAC_MODE_COOL == "cool"
HVAC_MODE_DRY == "dry"
HVAC_MODE_FAN_ONLY == "fan_only"

\* self._operation_modes; the None of HVAC_MODE_OFF is written -1
operation_modes ==
    (HVAC_MODE_OFF :> (0 - 1)) @@ (HVAC_MODE_COOL :> ClimateMode.Cold)
    @@ (HVAC_MODE_DRY :> ClimateMode.Dry) @@ (HVAC_MODE_HEAT :> ClimateMode.Hot)
    @@ (HVAC_MODE_FAN_ONLY :> ClimateMode.Auto)

\* self._fan_modes
fan_modes ==
    [Auto |-> FanMode.Auto, Speed1 |-> FanMode.Speed1, Speed2 |-> FanMode.Speed2,
     Speed3 |-> FanMode.Speed3, Speed4 |-> FanMode.Speed4]

\* self._swing_modes
swing_modes ==
    [Top |-> VanneVerticalMode.Top, MiddleTop |-> VanneVerticalMode.MiddleTop,
     Middle |-> VanneVerticalMode.Middle,
     MiddleBottom |-> VanneVerticalMode.MiddleBottom,
     Bottom |-> VanneVerticalMode.Bottom, Swing |-> VanneVerticalMode.Swing,
     Auto |-> VanneVerticalMode.Auto]

min_temperature == 16
max_temperature == 31

\* the fields __init__ sets; the None of _last_on_operation is written "None"
NewEntity ==
    [target_temperature |-> min_temperature, hvac_mode |-> HVAC_MODE_OFF,
     current_fan_mode |-> "Speed1", current_swing_mode |-> "Top",
     last_on_operation |-> "None"]

\* asyncio.Lock(): not locked, nobody waiting; woken says that the future of
\* the first waiter has been given its result
NewLock == [locked |-> FALSE, waiters |-> <<>>, woken |-> FALSE]

NoTask == [pc |-> "none", command |-> <<>>]

\* the wall-clock time of the runs of the entity
ClimateNow == Time(13, 37)

\* the requests the model draws
TemperatureInputs == {[set |-> FALSE, value |-> 0], [set |-> TRUE, value |-> 24],
                      [set |-> TRUE, value |-> 40]}
ModeInputs == {HVAC_MODE_OFF, HVAC_MODE_COOL, HVAC_MODE_HEAT, "auto"}
FanInputs == {"Auto"}
SwingInputs == {"Swing"}

\* a lock that anybody may take at any time
lock_free_always(lk) == TRUE

\* Lock.acquire returns at once: not locked, and no waiter before the caller
lock_free(lk) == ~lk.locked /\ lk.waiters = <<>>

\* Lock.release: unlocked, and the first waiter, if any, is woken
release(lk) == [lk EXCEPT !.locked = FALSE, !.woken = (lk.waiters # <<>>)]

\* the try block of send_command up to controller.send: ok = FALSE is the
\* KeyError of a mode that is no key of its table, caught by the except.
\* The command is the waveform of power_off or send_command; the entity's
\* model keeps the frame that waveform carries.
build(ent) ==
    IF \/ ent.hvac_mode \notin DOMAIN operation_modes
       \/ ent.current_fan_mode \notin DOMAIN fan_modes
       \/ ent.current_swing_mode \notin DOMAIN swing_modes
    THEN [ok |-> FALSE, command |-> <<>>]
    ELSE IF ent.hvac_mode = HVAC_MODE_OFF
    THEN [ok |-> TRUE, command |-> power_off_data(ClimateNow)]
    ELSE [ok |-> TRUE,
          command |-> send_command_data(
              [Defaults EXCEPT
                  !.climate_mode = operation_modes[ent.hvac_mode],
                  !.temperature = ent.target_temperature,
                  !.fan_mode = fan_modes[ent.current_fan_mode],
                  !.vanne_vertical_mode = swing_modes[ent.current_swing_mode]],
              ClimateNow)]

\* send_command with the lock held: the command is built from the fields as
\* they are now and handed to controller.send, or the KeyError is logged and
\* the lock released
LockedSection(t, ent, lk) ==
    \E b \in {build(ent)} :
        IF b.ok
        THEN /\ lock' = lk
             /\ tasks' = [tasks EXCEPT ![t] = [pc |-> "sending", command |-> b.command]]
             /\ transmitted' = Append(transmitted, b.command)
        ELSE /\ lock' = release(lk)
             /\ tasks' = [tasks EXCEPT ![t] = [pc |-> "updating", command |-> <<>>]]
             /\ UNCHANGED transmitted

\* send_command called by task t: it takes the lock and goes on, or waits
HvacIrClimate_send_command(t, ent) ==
    IF lock_free(lock)
    THEN LockedSection(t, ent, [lock EXCEPT !.locked = TRUE])
    ELSE /\ lock' = [lock EXCEPT !.waiters = Append(@, t)]
         /\ tasks' = [tasks EXCEPT ![t] = [pc |-> "waiting", command |-> <<>>]]
         /\ UNCHANGED transmitted

\* the handler skips send_command and awaits async_update_ha_state
SkipSend(t) ==
    /\ tasks' = [tasks EXCEPT ![t] = [pc |-> "updating", command |-> <<>>]]
    /\ UNCHANGED <<lock, transmitted>>

\* the writes of async_set_hvac_mode
set_hvac_mode(ent, hvac_mode) ==
    [ent EXCEPT !.hvac_mode = hvac_mode,
                !.last_on_operation = IF hvac_mode # HVAC_MODE_OFF THEN hvac_mode ELSE @]

Started == Cardinality({t \in DOMAIN tasks : tasks[t].pc # "none"})

InitClimate ==
    /\ pc = "idle"
    /\ profile = MitsubishiProfile
    /\ raw_codes = <<>>
    /\ call = NoCall
    /\ ret = NoRet
    /\ code = <<>>
    /\ visits = <<>>
    /\ data = <<>>
    /\ history = <<>>
    /\ entity = NewEntity
    /\ lock = NewLock
    /\ tasks = [t \in 1..MaxTasks |-> NoTask]
    /\ transmitted = <<>>

\* a request runs from its first line to its first suspension
async_set_temperature ==
    /\ Started < MaxTasks
    /\ \E temperature \in TemperatureInputs, hvac_mode \in {"None", HVAC_MODE_HEAT} :
          LET t == Started + 1
          IN  IF \/ ~temperature.set
                 \/ temperature.value < min_temperature
                 \/ temperature.value > max_temperature
              THEN /\ tasks' = [tasks EXCEPT ![t] = [pc |-> "done", command |-> <<>>]]
                   /\ UNCHANGED <<entity, lock, transmitted>>
              ELSE \E e1 \in {[entity EXCEPT !.target_temperature = temperature.value]} :
                      IF hvac_mode # "None"
                      THEN /\ entity' = set_hvac_mode(e1, hvac_mode)
                           /\ HvacIrClimate_send_command(t, entity')
                      ELSE /\ entity' = e1
                           /\ IF e1.hvac_mode # HVAC_MODE_OFF
                              THEN HvacIrClimate_send_command(t, e1)
                              ELSE SkipSend(t)
    /\ UNCHANGED encoder

async_set_hvac_mode ==
    /\ Started < MaxTasks
    /\ \E hvac_mode \in ModeInputs :
          /\ entity' = set_hvac_mode(entity, hvac_mode)
          /\ HvacIrClimate_send_command(Started + 1, entity')
    /\ UNCHANGED encoder

async_set_fan_mode ==
    /\ Started < MaxTasks
    /\ \E fan_mode \in FanInputs :
          /\ entity' = [entity EXCEPT !.current_fan_mode = fan_mode]
          /\ IF entity.hvac_mode # HVAC_MODE_OFF
             THEN HvacIrClimate_send_command(Started + 1, entity')
             ELSE SkipSend(Started + 1)
    /\ UNCHANGED encoder

async_set_swing_mode ==
    /\ Started < MaxTasks
    /\ \E swing_mode \in SwingInputs :
          /\ entity' = [entity EXCEPT !.current_swing_mode = swing_mode]
          /\ IF entity.hvac_mode # HVAC_MODE_OFF
             THEN HvacIrClimate_send_command(Started + 1, entity')
             ELSE SkipSend(Started + 1)
    /\ UNCHANGED encoder

async_turn_off ==
    /\ Started < MaxTasks
    /\ entity' = set_hvac_mode(entity, HVAC_MODE_OFF)
    /\ HvacIrClimate_send_command(Started + 1, entity')
    /\ UNCHANGED encoder

async_turn_on ==
    /\ Started < MaxTasks
    /\ entity' = set_hvac_mode(entity,
                               IF entity.last_on_operation # "None"
                               THEN entity.last_on_operation ELSE HVAC_MODE_COOL)
    /\ HvacIrClimate_send_command(Started + 1, entity')
    /\ UNCHANGED encoder

\* the first waiter, woken by release, takes the lock and goes on
Resume ==
    /\ \E t \in DOMAIN tasks :
          /\ tasks[t].pc = "waiting"
          /\ lock.woken
          /\ lock.waiters # <<>>
          /\ Head(lock.waiters) = t
          /\ LockedSection(t, entity, [locked |-> TRUE, waiters |-> Tail(lock.waiters),
                                       woken |-> FALSE])
    /\ UNCHANGED <<entity, encoder>>

\* controller.send returns: the with block is left and the lock released
SendDone ==
    /\ \E t \in DOMAIN tasks :
          /\ tasks[t].pc = "sending"
          /\ tasks' = [tasks EXCEPT ![t] = [pc |-> "updating", command |-> <<>>]]
    /\ lock' = release(lock)
    /\ UNCHANGED <<entity, transmitted, encoder>>

\* controller.send raises: the except logs it, the with block is left and the
\* lock released
SendRaise ==
    /\ \E t \in DOMAIN tasks :
          /\ tasks[t].pc = "sending"
          /\ tasks' = [tasks EXCEPT ![t] = [pc |-> "updating", command |-> <<"raised">>]]
    /\ lock' = release(lock)
    /\ UNCHANGED <<entity, transmitted, encoder>>

\* async_update_ha_state returns, and with it the request
UpdateState ==
    /\ \E t \in DOMAIN tasks :
          /\ tasks[t].pc = "updating"
          /\ tasks' = [tasks EXCEPT ![t].pc = "done"]
    /\ UNCHANGED <<entity, lock, transmitted, encoder>>

NextClimate ==
    \/ async_set_temperature
    \/ async_set_hvac_mode
    \/ async_set_fan_mode
    \/ async_set_swing_mode
    \/ async_turn_off
    \/ async_turn_on
    \/ Resume
    \/ SendDone
    \/ SendRaise
    \/ UpdateState

SpecClimate == InitClimate /\ [][NextClimate]_vars

-----------------------------------------------------------------------------
(* Properties of IrSender, checked under SpecSender *)

Returned(op) == pc = "returned" /\ call.op = op

HasBadSymbol(ircode) == \E k \in 1..Len(ircode) : ircode[k] \notin {"0", "1"}

RECURSIVE Repeat(_, _)
Repeat(s, n) == IF n = 0 THEN <<>> ELSE s \o Repeat(s, n - 1)

Reverse(s) == [k \in 1..Len(s) |-> s[Len(s) + 1 - k]]

RECURSIVE Pow2(_)
Pow2(n) == IF n = 0 THEN 1 ELSE 2 * Pow2(n - 1)

\* the 8 bits of a byte, most significant first
MSBFirst(b) == [k \in 1..8 |-> IF (b \div Pow2(8 - k)) % 2 = 1 THEN "1" ELSE "0"]

RECURSIVE NaturalBits(_)
NaturalBits(d) == IF d = <<>> THEN <<>> ELSE MSBFirst(Head(d)) \o NaturalBits(Tail(d))

RECURSIVE ReversedBytesBits(_)
ReversedBytesBits(d) ==
    IF d = <<>> THEN <<>> ELSE Reverse(MSBFirst(Head(d))) \o ReversedBytesBits(Tail(d))

\* the masks visited for byte idx, in the order visited
MasksOf(v, idx) ==
    LET sel == SelectSeq(v, LAMBDA x : x[1] = idx)
    IN  [k \in 1..Len(sel) |-> sel[k][2]]

\* the byte indexes in the order the loop visited them, one entry per visit
IdxOrder == [k \in 1..Len(visits) |-> visits[k][1]]

Alternates(w) ==
    \A k \in 1..Len(w) : IF k % 2 = 1 THEN w[k] > 0 ELSE w[k] < 0

\* C2: a symbol string with a symbol other than 0/1, handed to process_code by
\* send_code (nb >= 1), makes send_code return the error code 1 and no list of
\* durations, wherever the symbol stands.
C2_BadSymbolIsError ==
    (Returned("send_code") /\ call.nb >= 1 /\ HasBadSymbol(call.ircode))
        => (ret.kind = "int" /\ ret.int = 1 /\ ret.list = <<>>)

C2_Witness ==
    /\ Returned("send_code")
    /\ call.nb = 2
    /\ Len(call.ircode) = 2
    /\ call.ircode[1] = "1"
    /\ call.ircode[2] = "x"
    /\ ret.kind = "int"
    /\ Len(raw_codes) > Len(call.pre)

\* C3 (as claimed): within a byte the masks are visited high-to-low, and with
\* mask 0xFF the bits 7,6,...,0 are visited in that order.
C3_HighToLow ==
    Returned("send_data") =>
        /\ \A k \in 1..(Len(visits) - 1) :
              visits[k][1] = visits[k + 1][1] => visits[k + 1][2] < visits[k][2]
        /\ call.max_mask = 255 =>
              \A i \in 0..(Len(call.data) - 1) :
                  MasksOf(visits, i) = <<128, 64, 32, 16, 8, 4, 2, 1>>

\* C3 (amended): within a byte the masks are visited low-to-high, each the
\* double of the one before, starting at 1 and staying below the mask value;
\* with mask 0xFF the bits 0,1,...,7 are visited in that order.
C3_LowToHigh ==
    Returned("send_data") =>
        /\ \A k \in 1..(Len(visits) - 1) :
              visits[k][1] = visits[k + 1][1] => visits[k + 1][2] = 2 * visits[k][2]
        /\ \A k \in 1..Len(visits) :
              /\ visits[k][2] < call.max_mask
              /\ (k = 1 \/ visits[k - 1][1] # visits[k][1]) => visits[k][2] = 1
        /\ call.max_mask = 255 =>
              \A i \in 0..(Len(call.data) - 1) :
                  MasksOf(visits, i) = <<1, 2, 4, 8, 16, 32, 64, 128>>

C3_Witness ==
    /\ Returned("send_data")
    /\ call.max_mask = 255
    /\ Len(call.data) = 2
    /\ Len(visits) = 16

\* C4: with mask 0xFF, must_invert = FALSE visits the bytes last-to-first and
\* yields byte 0 first, each byte most significant bit first; must_invert =
\* TRUE visits the bytes first-to-last and yields byte 0 first, each byte least
\* significant bit first; both strings have 8 symbols per byte.  On
\* <<0b10110000, 0b00001111>> they are 1011000000001111 and 0000110111110000.
C4_BitOrder ==
    (Returned("send_data") /\ call.max_mask = 255) =>
        /\ Len(code) = 8 * Len(call.data)
        /\ \A k \in 1..(Len(visits) - 1) :
              IF call.must_invert THEN IdxOrder[k] <= IdxOrder[k + 1]
              ELSE IdxOrder[k] >= IdxOrder[k + 1]
        /\ Len(call.data) > 0 =>
              IdxOrder[1] = (IF call.must_invert THEN 0 ELSE Len(call.data) - 1)
        /\ ~call.must_invert => code = NaturalBits(call.data)
        /\ call.must_invert => code = ReversedBytesBits(call.data)
        /\ (call.data = <<176, 15>> /\ ~call.must_invert) =>
              code = <<"1","0","1","1","0","0","0","0","0","0","0","0","1","1","1","1">>
        /\ (call.data = <<176, 15>> /\ call.must_invert) =>
              code = <<"0","0","0","0","1","1","0","1","1","1","1","1","0","0","0","0">>

C4_Witness ==
    /\ Returned("send_data")
    /\ call.max_mask = 255
    /\ call.data = <<176, 15>>
    /\ ~call.must_invert
    /\ code[1] = "1"

\* C5: when the leading burst is emitted its low phase is appended only if the
\* leading gap is positive: with leading gap 0 the entry after the leading
\* pulse, if any, is the next pulse, never a zero-length low entry.
C5_NoZeroLeadingGap ==
    (pc = "returned" /\ call.pre = <<>> /\ call.nb >= 1
        /\ profile.lp > 0 /\ profile.lg = 0)
        => /\ raw_codes[1] = profile.lp
           /\ Len(raw_codes) >= 2 => raw_codes[2] > 0

\* C6: on a sender whose raw_codes is still empty, send_data with nb >= 1
\* returns nb copies, one after the other, of what it returns with nb = 1.
C6_Repetition ==
    (Returned("send_data") /\ call.pre = <<>> /\ call.nb >= 1) =>
        LET single == send_data(profile, <<>>, call.data, call.max_mask,
                                call.must_invert, 1).ret.list
        IN  /\ ret.kind = "list"
            /\ Len(ret.list) = call.nb * Len(single)
            /\ ret.list = Repeat(single, call.nb)
            /\ single = leading(profile, <<>>)
                        \o SubSeq(single, Len(leading(profile, <<>>)) + 1,
                                  Len(single) - Len(trailing(profile, <<>>)))
                        \o trailing(profile, <<>>)

C6_Witness ==
    /\ Returned("send_data")
    /\ call.pre = <<>>
    /\ call.nb = 2
    /\ call.max_mask = 255
    /\ Len(call.data) = 2
    /\ profile.lp > 0
    /\ profile.tp > 0
    /\ Len(ret.list) > 64

\* C7 (as claimed): whenever a leading burst is configured (leading pulse > 0
\* or leading gap > 0) a returned waveform starts with a positive entry, and
\* under the Mitsubishi profile it alternates positive and negative entries.
C7_FirstPositive ==
    (pc = "returned" /\ ret.kind = "list" /\ ret.list # <<>>) =>
        /\ (profile.lp > 0 \/ profile.lg > 0) => ret.list[1] > 0
        /\ profile = MitsubishiProfile => Alternates(ret.list)

\* C7 (amended): whenever the leading pulse is positive a returned waveform
\* starts with a positive entry, and under the Mitsubishi profile it
\* alternates positive and negative entries, none of them zero.
C7_FirstPositiveIfPulse ==
    (pc = "returned" /\ ret.kind = "list" /\ ret.list # <<>>) =>
        /\ profile.lp > 0 => ret.list[1] > 0
        /\ profile = MitsubishiProfile => Alternates(ret.list)

C7_Witness ==
    /\ Returned("send_code")
    /\ profile = MitsubishiProfile
    /\ call.ircode = <<"0", "1">>
    /\ call.nb = 2
    /\ ret.kind = "list"
    /\ Len(ret.list) = 16
    /\ ret.list[1] = Delay.HdrMark

-----------------------------------------------------------------------------
(* Properties of the Mitsubishi facade, checked under SpecFacade *)

FacadeReturned == pc = "returned" /\ call.op \in {"power_off", "send_command"}

\* the entries of one packet: header, 8 bits of 18 bytes, trailer
PacketLen == 2 + (2 * 8 * Constants.NbBytes) + 2

\* byte j (from 0) of packet k (from 1) of a waveform, read back from the
\* spaces: a space of OneSpace is a 1, the first bit sent is bit 0
DecodedByte(w, k, j) ==
    LET base == ((k - 1) * PacketLen) + 2 + (16 * j)
        value[b \in 0..8] ==
            IF b = 8 THEN 0
            ELSE (IF w[base + (2 * b) + 2] = 0 - Delay.OneSpace THEN Pow2(b) ELSE 0)
                 + value[b + 1]
    IN  value[0]

DecodedFrame(w, k) == [j \in 1..Constants.NbBytes |-> DecodedByte(w, k, j - 1)]

\* the waveform is two packets that both carry the frame in data
SentTwice ==
    /\ ret.kind = "list"
    /\ Len(ret.list) = 2 * PacketLen
    /\ \A k \in 1..2 :
          /\ ret.list[((k - 1) * PacketLen) + 1] = Delay.HdrMark
          /\ ret.list[((k - 1) * PacketLen) + 2] = 0 - Delay.HdrSpace
          /\ ret.list[k * PacketLen - 1] = Delay.RptMark
          /\ ret.list[k * PacketLen] = 0 - Delay.RptSpace
          /\ DecodedFrame(ret.list, k) = data

\* C1: in every frame the facade serializes, byte 17 is the sum of bytes 0..16
\* modulo 256, every byte fits 8 bits, and both packets of the waveform carry
\* exactly that frame.
C1_Checksum ==
    FacadeReturned =>
        /\ Len(data) = 18
        /\ \A i \in 1..18 : data[i] \in 0..255
        /\ data[18] = Sum(SubSeq(data, 1, 17)) % 256
        /\ SentTwice

C1_Witness ==
    /\ Returned("send_command")
    /\ call.args.start_time = Time(0, 9)
    /\ call.args.end_time = Time(23, 59)
    /\ call.args.vanne_horizontal_mode = 192
    /\ call.args.powerful = 8
    /\ call.args.area_mode = 192
    /\ Sum(SubSeq(data, 1, 17)) = 1177
    /\ data[18] = 153
    /\ ret.kind = "list"

\* C9: power_off, at any time, serializes with mask 0xFF, inverted bit order and
\* 2 repetitions a frame with power byte 0x00, mode+presence 0x20, temperature
\* byte 5, secondary mode+horizontal 0xC0, fan+vertical 0xC0, end time 0, start
\* time 0, time control+area 0 and powerful 0; send_command always serializes a
\* frame with power byte 0x20.
C9_PowerByte ==
    FacadeReturned =>
        /\ \A j \in 0..17 : MasksOf(visits, j) = <<1, 2, 4, 8, 16, 32, 64, 128>>
        /\ code = ReversedBytesBits(data)
        /\ SentTwice
        /\ call.op = "send_command" => data[6] = 32
        /\ call.op = "power_off" =>
              /\ data[6] = 0
              /\ data[7] = 32
              /\ data[8] = 5
              /\ data[9] = 192
              /\ data[10] = 192
              /\ data[12] = 0
              /\ data[13] = 0
              /\ data[14] = 0
              /\ data[16] = 0

C9_Witness ==
    /\ Returned("power_off")
    /\ call.now = Time(23, 59)
    /\ data[11] = 143
    /\ data[6] = 0
    /\ Len(ret.list) = 584

\* C10: for every temperature t the temperature byte is clamp(t, 16, 31) - 16,
\* a value in 0..15, and the call returns a waveform; t = 40 gives 15.
C10_TemperatureClamp ==
    Returned("send_command") =>
        LET t == call.args.temperature
        IN  /\ data[8] = (IF t < 16 THEN 16 ELSE IF t > 31 THEN 31 ELSE t) - 16
            /\ data[8] \in 0..15
            /\ DecodedByte(ret.list, 1, 7) = data[8]
            /\ t = 40 => data[8] = 15
            /\ ret.kind = "list"

C10_Witness ==
    /\ Returned("send_command")
    /\ call.args.temperature = 40
    /\ call.args.climate_mode = 24
    /\ call.args.fan_mode = 2
    /\ call.args.vanne_vertical_mode = 72
    /\ data[8] = 15

-----------------------------------------------------------------------------
(* Properties of calls repeated on one IrSender, checked under SpecSender *)

\* the durations one repetition of the call that last ran appends
OwnRepetition ==
    LET ircode == IF call.op = "send_data" THEN code ELSE call.ircode
    IN  process_code(profile, <<>>, ircode).raw

\* C12: on one IrSender, whatever calls ran on it before (failed ones
\* included), a send_code or send_data call that succeeds returns its own
\* repetitions' durations and nothing an earlier call appended.
C12_OwnDurationsOnly ==
    (/\ pc = "returned"
     /\ call.op \in {"send_code", "send_data"}
     /\ ret.kind = "list") =>
        ret.list = Repeat(OwnRepetition, call.nb)

-----------------------------------------------------------------------------
(* Properties of a run of facade calls, checked under SpecCaller *)

SameRequest(x, y) ==
    /\ x.op = "send_command"
    /\ y.op = "send_command"
    /\ x.args = y.args
    /\ x.now = y.now

\* C11: two send_command calls with the same settings at the same wall-clock
\* time return the same duration sequence, whatever power_off and send_command
\* calls the caller made before or between them.
C11_NoLeak ==
    \A i \in 1..Len(history) : \A j \in 1..Len(history) :
        (i < j /\ SameRequest(history[i], history[j])) =>
            history[i].ret = history[j].ret

C11_Witness ==
    /\ Len(history) = 3
    /\ SameRequest(history[1], history[3])
    /\ history[1].args.temperature = 24
    /\ history[1].now = Time(13, 37)
    /\ history[2].op = "power_off"
    /\ history[2].now = Time(0, 9)
    /\ history[1].ret.kind = "list"
    /\ Len(history[1].ret.list) = 584
    /\ history[3].ret = history[1].ret
    /\ history[2].ret # history[1].ret

-----------------------------------------------------------------------------
(* Properties of the entity, checked under SpecClimate *)

Sending == {t \in DOMAIN tasks : tasks[t].pc = "sending"}

\* C8: whatever the requests and their interleaving, at most one command is
\* with controller.send at any time, and the lock is held exactly while one
\* is: it is released when the transmission returns and when it raises.
C8_OneInFlight ==
    /\ Cardinality(Sending) <= 1
    /\ lock.locked <=> Sending # {}
    /\ \A t \in DOMAIN tasks :
          tasks[t].pc = "waiting" => \E k \in 1..Len(lock.waiters) : lock.waiters[k] = t

C8_Witness ==
    /\ tasks[1].pc = "updating"
    /\ tasks[1].command = <<"raised">>
    /\ tasks[2].pc = "sending"
    /\ tasks[3].pc = "waiting"
    /\ lock.locked
    /\ Len(transmitted) = 2

\* every request that started has returned
Quiescent == \A t \in DOMAIN tasks : tasks[t].pc \in {"none", "done"}

\* no controller.send has raised
NoneRaised == \A t \in DOMAIN tasks : tasks[t].command # <<"raised">>

LastTransmitted == transmitted[Len(transmitted)]

\* C13: whatever the requests and their interleaving, once every request has
\* returned, if no transmission raised and something was transmitted, the last
\* command transmitted is the power-off command exactly if the hvac mode is
\* off, and is the command built from the entity's final fields.
C13_LastCommandAgrees ==
    (Quiescent /\ NoneRaised /\ transmitted # <<>>) =>
        /\ (LastTransmitted[Index.Power + 1] = PowerMode.PowerOff)
               <=> (entity.hvac_mode = HVAC_MODE_OFF)
        /\ build(entity).ok
        /\ LastTransmitted = build(entity).command

=============================================================================
